---- MODULE Spec2Model ----
(***************************************************************************)
(* Renderer resolution core of astro (internal/__astro_component.ts) and   *)
(* the ConfigManager (config_manager.ts): the construction of its renderer *)
(* list and its markDirty()/update() cycle.                                *)
(*                                                                         *)
(* The module-level state of __astro_component.ts is the renderer list     *)
(* (rendererInstances) and the renderer cache (rendererCache).  Every      *)
(* embedded component occurrence is one call of __astro_component; the     *)
(* calls are asynchronous and interleave at their awaits, so each call     *)
(* has a program counter and its own locals.                               *)
(***************************************************************************)
EXTENDS Integers, Sequences, FiniteSets, TLC

\* ------------------------------------------------------------------ bounds

\* Embed calls that may be in flight at the same time.
NumCalls == 2
\* Longest renderer list handed to setRenderers / configured in astro.config.
MaxRenderers == 2
\* update() calls of the ConfigManager that may be in flight at the same time.
NumUpdates == 2
\* Highest value the version counter of the ConfigManager takes.
MaxVersion == 3

Calls == 1..NumCalls
Updates == 1..NumUpdates

\* ------------------------------------------------------- values of the code

Undefined == "undefined"

\* Component values: null/undefined, strings (tag names) and functions.
\* A string component carries its characters so that the hyphen test is
\* computed, not assumed.
NullComponent == [kind |-> "null", text |-> <<>>]
DivTag        == [kind |-> "string", text |-> <<"d", "i", "v">>]
WidgetTag     == [kind |-> "string", text |-> <<"m", "y", "-", "w">>]
FnComponent   == [kind |-> "function", text |-> <<"F">>]
Components    == {NullComponent, DivTag, WidgetTag, FnComponent}

\* componentProps.hydrate
HydrateModes == {"load", "idle", "visible"}
Hydrates     == HydrateModes \cup {Undefined}

\* RendererInstance records, named by identity.
astroRendererInstance     == "astro"
astroHtmlRendererInstance == "astro-html"
UserInstances             == {"A", "B"}
Instances == {astroRendererInstance, astroHtmlRendererInstance} \cup UserInstances

\* What an awaited renderer.check(...) can do.
CheckOutcomes == {"true", "false", "throw"}

\* The value thrown by the check of the instance at position pos of the scan.
CheckError(inst, pos) == [type |-> "CheckError", by |-> inst, pos |-> pos]
\* The value thrown by renderToStaticMarkup of an instance.
RenderError(inst) == [type |-> "RenderError", by |-> inst, pos |-> 0]
\* The Errors constructed by __astro_component itself.
NullComponentError == [type |-> "UnableToRender", by |-> Undefined, pos |-> 0]
StringComponentError == [type |-> "AstroUnableToRender", by |-> Undefined, pos |-> 0]
NoRendererError == [type |-> "NoRendererFound", by |-> Undefined, pos |-> 0]
NoError == [type |-> "none", by |-> Undefined, pos |-> 0]

\* All renderer lists a caller can hand to setRenderers.
RECURSIVE SeqsUpTo(_, _)
SeqsUpTo(S, n) ==
  IF n = 0 THEN {<<>>}
  ELSE LET shorter == SeqsUpTo(S, n - 1)
       IN shorter \cup {Append(s, x) : s \in {t \in shorter : Len(t) = n - 1}, x \in S}

RendererLists == SeqsUpTo(UserInstances, MaxRenderers)

\* ------------------------------------------------------------------- state

VARIABLES
  rendererInstances,  \* let rendererInstances: RendererInstance[]
  rendererCache,      \* const rendererCache = new Map<any, RendererInstance>()
  pc,                 \* per call: where the call is suspended
  Component,          \* per call: the Component argument
  hydrate,            \* per call: componentProps.hydrate
  scan,               \* per call: the array the for..of loop iterates
  idx,                \* per call: position of the loop in scan (1-based)
  errors,             \* per call: const errors: Error[]
  instance,           \* per call: let instance (Undefined when none)
  failure,            \* per call: the error the call was rejected with
  checks,             \* per call: the awaited checks so far, <<instance, outcome>>
  renders,            \* per call: the instances whose renderToStaticMarkup ran
  via,                \* per call: how resolveRenderer ended: cache, scan, none, error
  html,               \* per call: let html, once renderToStaticMarkup has returned
  astroId,            \* per call: const astroId
  output,             \* per call: the markup the closure resolved to
  verdicts,           \* what renderer.check answered per <<instance, Component>>, where checks are stable
  completedFor,       \* the Components some resolveRenderer call has completed for
  returnedFor,        \* the Components some resolveRenderer call has returned an instance for
  rendererNames,      \* ConfigManager: private rendererNames
  state,              \* ConfigManager: private state: 'initial' | 'dirty' | 'clean'
  snowpackRuntime,    \* ConfigManager: public snowpackRuntime (null or attached)
  version,            \* ConfigManager: private version
  updatePc,           \* per update() call: where the call is suspended
  covers,             \* per update() call: it began after the last markDirty()
  pendingDirty,       \* a markDirty() no completed update() has begun after
  building,           \* buildRendererInstances: const rendererNames, while it runs
  imported,           \* buildRendererInstances: the default exports Promise.all gave
  built               \* buildRendererInstances: how the last call settled

vars == <<rendererInstances, rendererCache, pc, Component, hydrate, scan, idx,
          errors, instance, failure, checks, renders, via, html, astroId, output,
          verdicts, completedFor, returnedFor, rendererNames, state,
          snowpackRuntime, version, updatePc, covers, pendingDirty, building,
          imported, built>>

managerVars == <<state, snowpackRuntime, version, updatePc, covers, pendingDirty>>

configVars == <<rendererNames, managerVars, building, imported, built>>

locals == <<pc, Component, hydrate, scan, idx, errors, instance, failure,
            checks, renders, via, html, astroId, output>>

runtimeVars == <<rendererInstances, rendererCache, locals, verdicts,
                 completedFor, returnedFor>>

\* ------------------------------------------------------------ pure helpers

\* A slip that drops the hyphen test.
isAnyStringTag(name) == name.kind = "string"

\* function isCustomElementTag(name): typeof name === 'string' && /-/.test(name)
isCustomElementTag(name) ==
  /\ name.kind = "string"
  /\ \E i \in 1..Len(name.text) : name.text[i] = "-"

\* A slip that never finds a key.
CacheHasNothing(cache, C) == FALSE

\* rendererCache.has(Component)
CacheHas(cache, C) == C \in DOMAIN cache

\* A cache that holds the last entry only.
CacheSetEvicting(cache, C, inst) == [c \in {C} |-> inst]

\* A slip that stores the plain-HTML instance, not the one that matched.
CacheSetPlainHtml(cache, C, inst) ==
  [c \in DOMAIN cache \cup {C} |-> IF c = C THEN astroHtmlRendererInstance ELSE cache[c]]

\* A slip that loses the write.
CacheSetLost(cache, C, inst) == cache

\* rendererCache.set(Component, instance)
CacheSet(cache, C, inst) ==
  [c \in DOMAIN cache \cup {C} |-> IF c = C THEN inst ELSE cache[c]]

\* A slip that puts the self-referential instance last.
Appended(list) == list \o <<astroRendererInstance>>

\* [astroRendererInstance].concat(_rendererInstances)
Prepended(list) == <<astroRendererInstance>> \o list

\* A slip that takes the first user renderer of any registry that has one.
FallbackFirstUser(C, registry) ==
  IF isCustomElementTag(C) THEN astroHtmlRendererInstance
  ELSE IF Len(registry) >= 2 THEN registry[2]
  ELSE Undefined

\* The fallback of __astro_component when resolveRenderer returned nothing.
FallbackInstance(C, registry) ==
  IF isCustomElementTag(C) THEN astroHtmlRendererInstance
  ELSE IF Len(registry) = 2 THEN registry[2]
  ELSE Undefined

\* ------------------------------------------------------------------ markup

\* Markup is a string, held as the sequence of its pieces.  The pieces are
\* cut so that the wrapper tags are spelled out of smaller ones: a tag is
\* present wherever its pieces stand next to each other.
OpenFragment  == <<"<", "astro-", "fragment", ">">>
CloseFragment == <<"<", "/", "astro-", "fragment", ">">>
\* The same tags in another letter case, and an opening tag with an attribute.
UpperOpenFragment  == <<"<", "ASTRO-", "FRAGMENT", ">">>
UpperCloseFragment == <<"<", "/", "ASTRO-", "FRAGMENT", ">">>
AttrOpenFragment   == <<"<", "astro-", "fragment", " slot=a", ">">>
Text          == <<"x">>

\* What a renderer's renderToStaticMarkup may return as html.
Markups ==
  { Text,
    OpenFragment \o Text \o CloseFragment,
    OpenFragment \o OpenFragment \o Text \o CloseFragment \o CloseFragment,
    <<"<", "astro-">> \o OpenFragment \o <<"fragment", ">">> \o Text,
    UpperOpenFragment \o Text \o UpperCloseFragment,
    AttrOpenFragment \o Text \o CloseFragment }

\* instance.polyfills of the registered instances
Polyfills(inst) == IF inst = "B" THEN <<"/shim.js">> ELSE <<>>

\* instance.source: '' for the built-in instances, the client entry otherwise
Source(inst) == IF inst \in UserInstances THEN <<"/client/", inst>> ELSE <<>>

\* polyfills.map(src => `<script type="module" src="${src}"></script>`).join('')
RECURSIVE PolyfillScripts(_)
PolyfillScripts(srcs) ==
  IF srcs = <<>> THEN <<>>
  ELSE <<"<script type=\"module\" src=\"", Head(srcs), "\"></script>">>
       \o PolyfillScripts(Tail(srcs))

\* if (instance.polyfills.length) html = html + polyfillScripts
WithPolyfills(markup, srcs) ==
  IF Len(srcs) # 0 THEN markup \o PolyfillScripts(srcs) ELSE markup

\* Whether t is a prefix of s.
StartsWith(s, t) == Len(t) <= Len(s) /\ SubSeq(s, 1, Len(t)) = t

\* A removal that ignores letter case and attributes.
RECURSIVE StripFragmentsLoosely(_)
StripFragmentsLoosely(s) ==
  IF s = <<>> THEN <<>>
  ELSE IF \E t \in {OpenFragment, CloseFragment, UpperOpenFragment,
                    UpperCloseFragment, AttrOpenFragment} : StartsWith(s, t)
    THEN LET t == CHOOSE u \in {OpenFragment, CloseFragment, UpperOpenFragment,
                                UpperCloseFragment, AttrOpenFragment} :
                    StartsWith(s, u)
         IN StripFragmentsLoosely(SubSeq(s, Len(t) + 1, Len(s)))
  ELSE <<Head(s)>> \o StripFragmentsLoosely(Tail(s))

\* html.replace(/\<\/?astro-fragment\>/g, ''): one pass from the left; every
\* match is dropped and the search goes on behind it.
RECURSIVE StripFragments(_)
StripFragments(s) ==
  IF s = <<>> THEN <<>>
  ELSE IF StartsWith(s, OpenFragment)
    THEN StripFragments(SubSeq(s, Len(OpenFragment) + 1, Len(s)))
  ELSE IF StartsWith(s, CloseFragment)
    THEN StripFragments(SubSeq(s, Len(CloseFragment) + 1, Len(s)))
  ELSE <<Head(s)>> \o StripFragments(Tail(s))

\* The code of a piece, for the hash.
PieceCode(piece) ==
  CASE piece = "<" -> 60
    [] piece = ">" -> 62
    [] piece = "/" -> 47
    [] piece = "x" -> 120
    [] piece = "astro-" -> 45
    [] piece = "fragment" -> 102
    [] piece = "ASTRO-" -> 65
    [] piece = "FRAGMENT" -> 70
    [] OTHER -> 32

\* hash.unique(html) of the shorthash package: a rolling hash of the text,
\* hash = hash * 31 + code, kept to a fixed width (16 bits here), so that
\* equal markup gives equal ids and different markup may collide.
HashModulus == 65536
RECURSIVE Bitwise(_, _)
Bitwise(s, h) ==
  IF s = <<>> THEN h
  ELSE Bitwise(Tail(s), (h * 31 + PieceCode(Head(s))) % HashModulus)

hash_unique(s) == Bitwise(s, 0)

NoId == -1

\* A script that imports the setup helper of one mode whatever was asked.
generateHydrateScriptLoadOnly(inst, id, mode) ==
  [ setup  |-> <<"/_astro_frontend/hydrate/", "load", ".js">>,
    id     |-> id,
    source |-> IF Source(inst) # <<>> THEN "import component and hydrate"
               ELSE "import component" ]

\* async function generateHydrateScript({ instance, astroId, props },
\* { hydrate, componentUrl, componentExport }): the script, by its parts.
generateHydrateScript(inst, id, mode) ==
  [ setup  |-> <<"/_astro_frontend/hydrate/", mode, ".js">>,
    id     |-> id,
    source |-> IF Source(inst) # <<>> THEN "import component and hydrate"
               ELSE "import component" ]

NoScript == [setup |-> <<>>, id |-> NoId, source |-> "none"]

\* What the closure returns: the stripped html, or
\* [`<astro-root uid="${astroId}">${html}</astro-root>`, script].join('\n').
NoOutput == [kind |-> "none", uid |-> NoId, markup |-> <<>>, script |-> NoScript]
StaticOutput(markup) ==
  [kind |-> "static", uid |-> NoId, markup |-> markup, script |-> NoScript]
HydratedOutput(id, markup, script) ==
  [kind |-> "hydrated", uid |-> id, markup |-> markup, script |-> script]

\* ----------------------------------------------------------- ConfigManager

\* const DEFAULT_RENDERERS
DEFAULT_RENDERERS ==
  <<"@astrojs/renderer-vue", "@astrojs/renderer-svelte",
    "@astrojs/renderer-react", "@astrojs/renderer-preact">>

\* astro.config.mjs: `renderers` is absent or a list of package names.
ConfiguredNames == {"r1", "r2"}
NoRenderersConfig == [hasRenderers |-> FALSE, renderers |-> <<>>]
AstroConfigs ==
  {NoRenderersConfig} \cup
  {[hasRenderers |-> TRUE, renderers |-> names] :
     names \in SeqsUpTo(ConfiguredNames, MaxRenderers)}

\* public snowpackRuntime: SnowpackServerRuntime | null
NoRuntime == "null"
Runtime   == "runtime"

\* A needsUpdate that is true in every state.
needsUpdateAlways(st) == TRUE

\* needsUpdate(): this.state === 'initial' || this.state === 'dirty'
needsUpdate(st) == st = "initial" \/ st = "dirty"

\* private setRendererNames(astroConfig): astroConfig.renderers || DEFAULT_RENDERERS
\* (an empty array is truthy)
setRendererNames(astroConfig) ==
  IF astroConfig.hasRenderers THEN astroConfig.renderers
  ELSE DEFAULT_RENDERERS

\* The default export of a renderer package, by what buildRendererInstances
\* reads of it: name, client, server, snowpackPlugin, snowpackPluginOptions.
\* A field holds its typeof, or the string itself for name.
RawPlain      == [name |-> Undefined, client |-> "string", server |-> "string",
                  snowpackPlugin |-> Undefined, snowpackPluginOptions |-> FALSE]
RawNamed      == [name |-> "custom", client |-> "string", server |-> "string",
                  snowpackPlugin |-> "string", snowpackPluginOptions |-> FALSE]
RawWithPlugin == [name |-> Undefined, client |-> "string", server |-> "string",
                  snowpackPlugin |-> "string", snowpackPluginOptions |-> TRUE]
RawNoClient   == [name |-> Undefined, client |-> Undefined, server |-> "string",
                  snowpackPlugin |-> Undefined, snowpackPluginOptions |-> FALSE]
RawNoServer   == [name |-> "custom", client |-> "string", server |-> "object",
                  snowpackPlugin |-> "string", snowpackPluginOptions |-> FALSE]
RawBadPlugin  == [name |-> Undefined, client |-> "string", server |-> "string",
                  snowpackPlugin |-> "object", snowpackPluginOptions |-> FALSE]
RawExports == {RawPlain, RawNamed, RawWithPlugin, RawNoClient, RawNoServer, RawBadPlugin}

\* A promise of buildRendererInstances: pending, or settled either way.
Pending        == [state |-> "pending", value |-> <<>>, error |-> <<>>]
Fulfilled(v)   == [state |-> "fulfilled", value |-> v, error |-> <<>>]
Rejected(e)    == [state |-> "rejected", value |-> <<>>, error |-> e]
\* The running call's `const rendererNames`, when a call runs.
NotBuilding    == [running |-> FALSE, rendererNames |-> <<>>]
Building(names) == [running |-> TRUE, rendererNames |-> names]

\* The callback of `.map(({ default: raw }, i) => ...)` for one renderer: the
\* instance it returns, or the Error it throws.
MapRenderer(raw, rendererName) ==
  LET name == IF raw.name = Undefined THEN rendererName ELSE raw.name
  IN IF raw.client # "string"
       THEN [threw |-> TRUE, error |-> <<"Expected client", name>>]
     ELSE IF raw.server # "string"
       THEN [threw |-> TRUE, error |-> <<"Expected server", name>>]
     ELSE IF raw.snowpackPlugin # "string" /\ raw.snowpackPlugin # Undefined
       THEN [threw |-> TRUE, error |-> <<"Expected the snowpackPlugin", name>>]
     ELSE [threw |-> FALSE,
           value |-> [name |-> name,
                      snowpackPlugin |->
                        IF raw.snowpackPlugin # "string" THEN Undefined
                        ELSE IF raw.snowpackPluginOptions THEN "path+options"
                        ELSE "path",
                      client |-> <<name, "client">>,
                      server |-> <<name, "server">>]]

\* A map that leaves out the renderers whose callback throws.
RECURSIVE MapRenderersSkipping(_, _, _, _)
MapRenderersSkipping(raws, names, i, acc) ==
  IF i > Len(raws) THEN [threw |-> FALSE, value |-> acc]
  ELSE LET one == MapRenderer(raws[i], names[i])
       IN MapRenderersSkipping(raws, names, i + 1,
                               IF one.threw THEN acc ELSE Append(acc, one.value))

\* Array.prototype.map over the imported modules, left to right: the first
\* throwing callback ends the map and no array is made.
RECURSIVE MapRenderers(_, _, _, _)
MapRenderers(raws, names, i, acc) ==
  IF i > Len(raws) THEN [threw |-> FALSE, value |-> acc]
  ELSE LET one == MapRenderer(raws[i], names[i])
       IN IF one.threw THEN one
          ELSE MapRenderers(raws, names, i + 1, Append(acc, one.value))

\* async buildRendererInstances(): the value it resolves to, or the error it
\* rejects with.
buildRendererInstances(raws, names) ==
  LET mapped == MapRenderers(raws, names, 1, <<>>)
  IN IF mapped.threw THEN Rejected(mapped.error) ELSE Fulfilled(mapped.value)

\* -------------------------------------------------------------------- Init

RuntimeInit ==
  /\ rendererInstances = <<>>
  /\ rendererCache = <<>>
  /\ pc = [p \in Calls |-> "idle"]
  /\ Component = [p \in Calls |-> NullComponent]
  /\ hydrate = [p \in Calls |-> Undefined]
  /\ scan = [p \in Calls |-> <<>>]
  /\ idx = [p \in Calls |-> 0]
  /\ errors = [p \in Calls |-> <<>>]
  /\ instance = [p \in Calls |-> Undefined]
  /\ failure = [p \in Calls |-> NoError]
  /\ checks = [p \in Calls |-> <<>>]
  /\ renders = [p \in Calls |-> <<>>]
  /\ via = [p \in Calls |-> "unresolved"]
  /\ html = [p \in Calls |-> <<>>]
  /\ astroId = [p \in Calls |-> NoId]
  /\ output = [p \in Calls |-> NoOutput]
  /\ verdicts = <<>>
  /\ completedFor = {}
  /\ returnedFor = {}

\* new ConfigManager(astroConfig, resolvePackageUrl) with this configuration
Constructed(config) ==
  /\ rendererNames = setRendererNames(config)
  /\ state = "initial"
  /\ snowpackRuntime = NoRuntime
  /\ version = 1
  /\ updatePc = [u \in Updates |-> "idle"]
  /\ covers = [u \in Updates |-> FALSE]
  /\ pendingDirty = FALSE
  /\ building = NotBuilding
  /\ imported = <<>>
  /\ built = Pending

\* The module state of __astro_component.ts as loaded, and a ConfigManager
\* built for a project whose astro.config.mjs names no renderers.
Init == RuntimeInit /\ Constructed(NoRenderersConfig)

\* ----------------------------------------------------------------- actions

\* A setRenderers that edits the array in place: a loop that iterates the
\* array sees the new elements.
setRenderersInPlace(list) ==
  /\ rendererInstances' = Prepended(list)
  /\ scan' = [p \in Calls |->
               IF pc[p] = "check" /\ idx[p] <= Len(Prepended(list))
               THEN Prepended(list) ELSE scan[p]]
  /\ UNCHANGED <<rendererCache, pc, Component, hydrate, idx, errors, instance,
                 failure, checks, renders, via, html, astroId, output,
                 completedFor, returnedFor>>
  /\ UNCHANGED <<configVars, verdicts>>

\* A setRenderers that also empties the cache.
setRenderersClearing(list) ==
  /\ rendererInstances' = Prepended(list)
  /\ rendererCache' = <<>>
  /\ UNCHANGED <<locals, completedFor, returnedFor>>
  /\ UNCHANGED <<configVars, verdicts>>

\* export function setRenderers(_rendererInstances)
setRenderers(list) ==
  /\ rendererInstances' = Prepended(list)
  /\ UNCHANGED <<rendererCache, locals, completedFor, returnedFor>>
  /\ UNCHANGED <<configVars, verdicts>>

\* The first stage of __astro_component(Component, componentProps): the
\* validation, which throws or returns the async closure.
ValidateStep(p, C) ==
  /\ pc[p] = "idle"
  /\ Component' = [Component EXCEPT ![p] = C]
  /\ IF C.kind = "null"
       THEN /\ pc' = [pc EXCEPT ![p] = "failed"]
            /\ failure' = [failure EXCEPT ![p] = NullComponentError]
       ELSE IF C.kind = "string" /\ ~isCustomElementTag(C)
       THEN /\ pc' = [pc EXCEPT ![p] = "failed"]
            /\ failure' = [failure EXCEPT ![p] = StringComponentError]
       ELSE /\ pc' = [pc EXCEPT ![p] = "ready"]
            /\ UNCHANGED failure
  /\ UNCHANGED <<rendererInstances, rendererCache, hydrate, scan, idx, errors,
                 instance, checks, renders, via, html, astroId, output,
                 completedFor, returnedFor>>
  /\ UNCHANGED <<configVars, verdicts>>

\* A slip that takes the inverse of what the check answered.
shouldUseInverted(o) == o = "false"

\* `const shouldUse: boolean = await renderer.check(...); if (shouldUse)`
shouldUse(o) == o = "true"

\* A slip that swallows every thrown check error.
RethrowsNever(errs) == FALSE

\* `if (errors.length)` at the end of resolveRenderer
Rethrows(errs) == Len(errs) # 0

\* A slip that surfaces the error thrown last.
LastError(errs) == errs[Len(errs)]

\* `throw errors[0]`
FirstError(errs) == errs[1]

\* The closure is called: resolveRenderer(Component, props, children) runs up
\* to its first await.  A cached Component returns at once; otherwise the
\* for..of loop takes the array rendererInstances refers to now and calls
\* the check of its first element.
ResolveStart(p) ==
  /\ pc[p] = "ready"
  /\ IF CacheHas(rendererCache, Component[p])
       THEN /\ instance' = [instance EXCEPT ![p] = rendererCache[Component[p]]]
            /\ via' = [via EXCEPT ![p] = "cache"]
            /\ pc' = [pc EXCEPT ![p] = "resolved"]
            /\ completedFor' = completedFor \cup {Component[p]}
            /\ returnedFor' = returnedFor \cup {Component[p]}
            /\ UNCHANGED <<scan, idx>>
       ELSE IF rendererInstances = <<>>
       THEN /\ via' = [via EXCEPT ![p] = "none"]
            /\ pc' = [pc EXCEPT ![p] = "resolved"]
            /\ completedFor' = completedFor \cup {Component[p]}
            /\ UNCHANGED <<instance, scan, idx, returnedFor>>
       ELSE /\ scan' = [scan EXCEPT ![p] = rendererInstances]
            /\ idx' = [idx EXCEPT ![p] = 1]
            /\ pc' = [pc EXCEPT ![p] = "check"]
            /\ UNCHANGED <<instance, via, completedFor, returnedFor>>
  /\ UNCHANGED <<rendererInstances, rendererCache, Component, hydrate, errors,
                 failure, checks, renders, html, astroId, output>>
  /\ UNCHANGED <<configVars, verdicts>>

\* The awaited renderer.check of scan[idx] settles with outcome o; the loop
\* body runs on to the next await or to the end of resolveRenderer.
CheckSettles(p, o) ==
  LET inst == scan[p][idx[p]]
      errs == IF o = "throw" THEN Append(errors[p], CheckError(inst, idx[p]))
              ELSE errors[p]
  IN
  /\ pc[p] = "check"
  /\ checks' = [checks EXCEPT ![p] = Append(@, <<inst, o>>)]
  /\ IF shouldUse(o)
       THEN /\ rendererCache' = CacheSet(rendererCache, Component[p], inst)
            /\ instance' = [instance EXCEPT ![p] = inst]
            /\ via' = [via EXCEPT ![p] = "scan"]
            /\ pc' = [pc EXCEPT ![p] = "resolved"]
            /\ completedFor' = completedFor \cup {Component[p]}
            /\ returnedFor' = returnedFor \cup {Component[p]}
            /\ UNCHANGED <<idx, errors, failure>>
       ELSE IF idx[p] < Len(scan[p])
       THEN /\ idx' = [idx EXCEPT ![p] = @ + 1]
            /\ errors' = [errors EXCEPT ![p] = errs]
            /\ UNCHANGED <<rendererCache, instance, via, pc, failure,
                           completedFor, returnedFor>>
       ELSE IF Rethrows(errs)
       THEN /\ errors' = [errors EXCEPT ![p] = errs]
            /\ failure' = [failure EXCEPT ![p] = FirstError(errs)]
            /\ via' = [via EXCEPT ![p] = "error"]
            /\ pc' = [pc EXCEPT ![p] = "failed"]
            /\ completedFor' = completedFor \cup {Component[p]}
            /\ UNCHANGED <<rendererCache, instance, idx, returnedFor>>
       ELSE /\ errors' = [errors EXCEPT ![p] = errs]
            /\ via' = [via EXCEPT ![p] = "none"]
            /\ pc' = [pc EXCEPT ![p] = "resolved"]
            /\ completedFor' = completedFor \cup {Component[p]}
            /\ UNCHANGED <<rendererCache, instance, idx, failure, returnedFor>>
  /\ UNCHANGED <<rendererInstances, Component, hydrate, scan, renders, html,
                 astroId, output>>
  /\ UNCHANGED configVars

\* A check whose answer may differ from call to call (it reads props,
\* children and whatever state the renderer keeps).
CheckReturn(p, o) == CheckSettles(p, o) /\ UNCHANGED verdicts

\* verdicts with the answer o of inst for C written down.
Recorded(v, inst, C, o) ==
  [k \in DOMAIN v \cup {<<inst, C>>} |-> IF k = <<inst, C>> THEN o ELSE v[k]]

\* A check that is stable: it answers for a Component what it answered for
\* it before.
StableCheckReturn(p, o) ==
  /\ CheckSettles(p, o)
  /\ <<scan[p][idx[p]], Component[p]>> \in DOMAIN verdicts =>
        verdicts[<<scan[p][idx[p]], Component[p]>>] = o
  /\ verdicts' = Recorded(verdicts, scan[p][idx[p]], Component[p], o)

\* The closure continues after `await resolveRenderer(...)`: the fallback,
\* then the call of instance.renderer.renderToStaticMarkup.
RenderStart(p) ==
  LET chosen == IF instance[p] # Undefined THEN instance[p]
                ELSE FallbackInstance(Component[p], rendererInstances)
  IN
  /\ pc[p] = "resolved"
  /\ IF chosen = Undefined
       THEN /\ pc' = [pc EXCEPT ![p] = "failed"]
            /\ failure' = [failure EXCEPT ![p] = NoRendererError]
            /\ UNCHANGED <<instance, renders>>
       ELSE /\ instance' = [instance EXCEPT ![p] = chosen]
            /\ renders' = [renders EXCEPT ![p] = Append(@, chosen)]
            /\ pc' = [pc EXCEPT ![p] = "render"]
            /\ UNCHANGED failure
  \* the locals of resolveRenderer are gone once it has returned
  /\ scan' = [scan EXCEPT ![p] = <<>>]
  /\ idx' = [idx EXCEPT ![p] = 0]
  /\ errors' = [errors EXCEPT ![p] = <<>>]
  /\ checks' = [checks EXCEPT ![p] = <<>>]
  /\ UNCHANGED <<rendererInstances, rendererCache, Component, hydrate, via,
                 html, astroId, output, completedFor, returnedFor>>
  /\ UNCHANGED <<configVars, verdicts>>

\* A closure that catches the render error and tries the plain-HTML instance.
RenderThrowsRetrying(p) ==
  /\ pc[p] = "render"
  /\ IF instance[p] = astroHtmlRendererInstance
       THEN /\ pc' = [pc EXCEPT ![p] = "failed"]
            /\ failure' = [failure EXCEPT ![p] = RenderError(instance[p])]
            /\ UNCHANGED <<instance, renders>>
       ELSE /\ instance' = [instance EXCEPT ![p] = astroHtmlRendererInstance]
            /\ renders' = [renders EXCEPT ![p] = Append(@, astroHtmlRendererInstance)]
            /\ UNCHANGED <<pc, failure>>
  /\ UNCHANGED <<rendererInstances, rendererCache, Component, hydrate, scan, idx,
                 errors, checks, via, html, astroId, output,
                 completedFor, returnedFor>>
  /\ UNCHANGED <<configVars, verdicts>>

\* The awaited renderToStaticMarkup rejects: nothing catches it, the closure
\* rejects with the same value.
RenderThrows(p) ==
  /\ pc[p] = "render"
  /\ pc' = [pc EXCEPT ![p] = "failed"]
  /\ failure' = [failure EXCEPT ![p] = RenderError(instance[p])]
  /\ UNCHANGED <<rendererInstances, rendererCache, Component, hydrate, scan, idx,
                 errors, instance, checks, renders, via, html, astroId, output,
                 completedFor, returnedFor>>
  /\ UNCHANGED <<configVars, verdicts>>

\* A closure that takes the id from the html and the Component together.
RenderReturnSaltedId(p, markup, h) ==
  LET withPolyfills == WithPolyfills(markup, Polyfills(instance[p]))
  IN
  /\ pc[p] = "render"
  /\ hydrate' = [hydrate EXCEPT ![p] = h]
  /\ html' = [html EXCEPT ![p] = withPolyfills]
  /\ IF h = Undefined
       THEN /\ pc' = [pc EXCEPT ![p] = "done"]
            /\ output' = [output EXCEPT ![p] = StaticOutput(StripFragments(withPolyfills))]
            /\ UNCHANGED astroId
       ELSE /\ pc' = [pc EXCEPT ![p] = "script"]
            /\ astroId' = [astroId EXCEPT ![p] =
                             hash_unique(withPolyfills \o Component[p].text)]
            /\ UNCHANGED output
  /\ UNCHANGED <<rendererInstances, rendererCache, Component, scan, idx,
                 errors, instance, failure, checks, renders, via,
                 completedFor, returnedFor>>
  /\ UNCHANGED <<configVars, verdicts>>

\* The awaited renderToStaticMarkup resolves with { html: markup }: the
\* polyfill scripts are appended and componentProps.hydrate, which holds h,
\* is read.  Without hydrate the closure returns the stripped markup; with
\* it, astroId is taken and generateHydrateScript is awaited.
RenderReturn(p, markup, h) ==
  LET withPolyfills == WithPolyfills(markup, Polyfills(instance[p]))
  IN
  /\ pc[p] = "render"
  /\ hydrate' = [hydrate EXCEPT ![p] = h]
  /\ html' = [html EXCEPT ![p] = withPolyfills]
  /\ IF h = Undefined
       THEN /\ pc' = [pc EXCEPT ![p] = "done"]
            /\ output' = [output EXCEPT ![p] = StaticOutput(StripFragments(withPolyfills))]
            /\ UNCHANGED astroId
       ELSE /\ pc' = [pc EXCEPT ![p] = "script"]
            /\ astroId' = [astroId EXCEPT ![p] = hash_unique(withPolyfills)]
            /\ UNCHANGED output
  /\ UNCHANGED <<rendererInstances, rendererCache, Component, scan, idx,
                 errors, instance, failure, checks, renders, via,
                 completedFor, returnedFor>>
  /\ UNCHANGED <<configVars, verdicts>>

\* The awaited generateHydrateScript resolves: the root element and the
\* script are joined and returned.
ScriptReturn(p) ==
  /\ pc[p] = "script"
  /\ pc' = [pc EXCEPT ![p] = "done"]
  /\ output' = [output EXCEPT ![p] =
       HydratedOutput(astroId[p], html[p],
                      generateHydrateScript(instance[p], astroId[p], hydrate[p]))]
  /\ UNCHANGED <<rendererInstances, rendererCache, Component, hydrate, scan, idx,
                 errors, instance, failure, checks, renders, via, html, astroId,
                 completedFor, returnedFor>>
  /\ UNCHANGED <<configVars, verdicts>>

\* The caller has taken the result (or the error); the call is over.
Release(p) ==
  /\ pc[p] \in {"done", "failed"}
  /\ pc' = [pc EXCEPT ![p] = "idle"]
  /\ Component' = [Component EXCEPT ![p] = NullComponent]
  /\ hydrate' = [hydrate EXCEPT ![p] = Undefined]
  /\ scan' = [scan EXCEPT ![p] = <<>>]
  /\ idx' = [idx EXCEPT ![p] = 0]
  /\ errors' = [errors EXCEPT ![p] = <<>>]
  /\ instance' = [instance EXCEPT ![p] = Undefined]
  /\ failure' = [failure EXCEPT ![p] = NoError]
  /\ checks' = [checks EXCEPT ![p] = <<>>]
  /\ renders' = [renders EXCEPT ![p] = <<>>]
  /\ via' = [via EXCEPT ![p] = "unresolved"]
  /\ html' = [html EXCEPT ![p] = <<>>]
  /\ astroId' = [astroId EXCEPT ![p] = NoId]
  /\ output' = [output EXCEPT ![p] = NoOutput]
  /\ UNCHANGED <<rendererInstances, rendererCache, completedFor, returnedFor>>
  /\ UNCHANGED <<configVars, verdicts>>

\* No other call is in flight.
Alone(p) == \A q \in Calls \ {p} : pc[q] = "idle"

\* Calls are told apart by the slot they run in; a new call takes the
\* lowest free one.
FreeSlot(p) == pc[p] = "idle" /\ \A q \in Calls : q < p => pc[q] # "idle"

\* A template that awaits each embedded component before it starts the
\* next: __astro_component is entered only while no other call is in flight.
Embed(p, C) == Alone(p) /\ FreeSlot(p) /\ ValidateStep(p, C)

\* A template that starts an embedded component while others are in flight.
EmbedConcurrently(p, C) == FreeSlot(p) /\ ValidateStep(p, C)

\* One call in flight at a time; setRenderers may run at every await of it.
Next ==
  \/ \E list \in RendererLists : setRenderers(list)
  \/ \E p \in Calls, C \in Components : Embed(p, C)
  \/ \E p \in Calls : ResolveStart(p)
  \/ \E p \in Calls, o \in CheckOutcomes : CheckReturn(p, o)
  \/ \E p \in Calls : RenderStart(p)
  \/ \E p \in Calls : RenderThrows(p)
  \/ \E p \in Calls, markup \in Markups, h \in Hydrates : RenderReturn(p, markup, h)
  \/ \E p \in Calls : ScriptReturn(p)
  \/ \E p \in Calls : Release(p)

Spec == Init /\ [][Next]_vars

\* The config module calls setRenderers once, before a page is rendered.
Configure(list) ==
  /\ rendererInstances = <<>>
  /\ \A p \in Calls : pc[p] = "idle"
  /\ setRenderers(list)

\* What the renderers return, and the hydrate props the templates set, where
\* calls run side by side.
ConcurrentMarkups  == {Text, OpenFragment \o Text \o CloseFragment}
ConcurrentHydrates == {Undefined, "load"}

\* Independent embed calls issued without awaiting each other, against the
\* registry the config module has set and renderers whose checks are
\* stable: every call may take its next step at every await of another.
ConcurrentNext ==
  \/ \E list \in RendererLists : Configure(list)
  \/ \E p \in Calls, C \in Components : EmbedConcurrently(p, C)
  \/ \E p \in Calls : ResolveStart(p)
  \/ \E p \in Calls, o \in CheckOutcomes : StableCheckReturn(p, o)
  \/ \E p \in Calls : RenderStart(p)
  \/ \E p \in Calls : RenderThrows(p)
  \/ \E p \in Calls, markup \in ConcurrentMarkups, h \in ConcurrentHydrates :
       RenderReturn(p, markup, h)
  \/ \E p \in Calls : ScriptReturn(p)
  \/ \E p \in Calls : Release(p)

ConcurrentSpec == Init /\ [][ConcurrentNext]_vars

\* buildRendererInstances is called (by getRenderers or buildSource): it
\* takes this.rendererNames and awaits the imports of the renderer packages.
BuildStart ==
  /\ ~building.running
  /\ building' = Building(rendererNames)
  /\ imported' = <<>>
  /\ built' = Pending
  /\ UNCHANGED <<runtimeVars, rendererNames, managerVars>>

\* Promise.all of the imports resolves with the modules raws; the map runs
\* and the call settles.
BuildFinish(raws) ==
  /\ building.running
  /\ Len(raws) = Len(building.rendererNames)
  /\ imported' = raws
  /\ built' = buildRendererInstances(raws, building.rendererNames)
  /\ building' = NotBuilding
  /\ UNCHANGED <<runtimeVars, rendererNames, managerVars>>

\* The modules a list of n packages can export.
RawLists(n) == [1..n -> RawExports]

\* A ConfigManager for any configuration; its renderer list is built, again
\* and again, while setRenderers is called from outside.
ConfigInit == RuntimeInit /\ \E config \in AstroConfigs : Constructed(config)

ConfigNext ==
  \/ BuildStart
  \/ \E raws \in RawLists(Len(building.rendererNames)) : BuildFinish(raws)
  \/ \E list \in RendererLists : setRenderers(list)

ConfigSpec == ConfigInit /\ [][ConfigNext]_vars

\* markDirty(): the file watcher saw astro.config.mjs change.
markDirty ==
  /\ state' = "dirty"
  /\ pendingDirty' = TRUE
  /\ covers' = [u \in Updates |-> FALSE]
  /\ UNCHANGED <<runtimeVars, rendererNames, snowpackRuntime, version, updatePc,
                 building, imported, built>>

\* The runtime assigns configManager.snowpackRuntime once snowpack runs.
AttachRuntime ==
  /\ snowpackRuntime = NoRuntime
  /\ snowpackRuntime' = Runtime
  /\ UNCHANGED <<runtimeVars, rendererNames, state, version, updatePc, covers,
                 pendingDirty, building, imported, built>>

\* update() calls are told apart by the slot they run in; a new call takes
\* the lowest free one.
FreeUpdate(u) ==
  updatePc[u] = "idle" /\ \A v \in Updates : v < u => updatePc[v] # "idle"

\* async update() is called and runs to its first await: nothing happens
\* unless needsUpdate() and a runtime is attached; a dirty state takes the
\* next version and awaits loadConfig; otherwise importModule is awaited.
UpdateCall(u) ==
  /\ FreeUpdate(u)
  /\ covers' = [covers EXCEPT ![u] = TRUE]
  /\ IF needsUpdate(state) /\ snowpackRuntime # NoRuntime
       THEN IF state = "dirty"
              THEN /\ version < MaxVersion
                   /\ version' = version + 1
                   /\ updatePc' = [updatePc EXCEPT ![u] = "loadConfig"]
                   /\ UNCHANGED pendingDirty
              ELSE /\ updatePc' = [updatePc EXCEPT ![u] = "importModule"]
                   /\ UNCHANGED <<version, pendingDirty>>
       ELSE /\ updatePc' = [updatePc EXCEPT ![u] = "returned"]
            /\ pendingDirty' = FALSE
            /\ UNCHANGED version
  /\ UNCHANGED <<runtimeVars, rendererNames, state, snowpackRuntime, building,
                 imported, built>>

\* The awaited loadConfig resolves with astroConfig: setRendererNames, then
\* importModule is awaited.
LoadConfigReturn(u, astroConfig) ==
  /\ updatePc[u] = "loadConfig"
  /\ rendererNames' = setRendererNames(astroConfig)
  /\ updatePc' = [updatePc EXCEPT ![u] = "importModule"]
  /\ UNCHANGED <<runtimeVars, state, snowpackRuntime, version, covers,
                 pendingDirty, building, imported, built>>

\* The awaited loadConfig rejects: so does update().
LoadConfigThrows(u) ==
  /\ updatePc[u] = "loadConfig"
  /\ updatePc' = [updatePc EXCEPT ![u] = "rejected"]
  /\ pendingDirty' = (pendingDirty /\ ~covers[u])
  /\ UNCHANGED <<runtimeVars, rendererNames, state, snowpackRuntime, version,
                 covers, building, imported, built>>

\* The awaited importModule resolves: this.state = 'clean'.
ImportModuleReturn(u) ==
  /\ updatePc[u] = "importModule"
  /\ state' = "clean"
  /\ updatePc' = [updatePc EXCEPT ![u] = "returned"]
  /\ pendingDirty' = (pendingDirty /\ ~covers[u])
  /\ UNCHANGED <<runtimeVars, rendererNames, snowpackRuntime, version, covers,
                 building, imported, built>>

\* The awaited importModule rejects: so does update().
ImportModuleThrows(u) ==
  /\ updatePc[u] = "importModule"
  /\ updatePc' = [updatePc EXCEPT ![u] = "rejected"]
  /\ pendingDirty' = (pendingDirty /\ ~covers[u])
  /\ UNCHANGED <<runtimeVars, rendererNames, state, snowpackRuntime, version,
                 covers, building, imported, built>>

\* The caller has taken the outcome of update(); the call is over.
UpdateRelease(u) ==
  /\ updatePc[u] \in {"returned", "rejected"}
  /\ updatePc' = [updatePc EXCEPT ![u] = "idle"]
  /\ covers' = [covers EXCEPT ![u] = FALSE]
  /\ UNCHANGED <<runtimeVars, rendererNames, state, snowpackRuntime, version,
                 pendingDirty, building, imported, built>>

\* The ConfigManager of a dev server: the watcher marks it dirty and requests
\* call update(), at any time.
UpdateNext ==
  \/ markDirty
  \/ AttachRuntime
  \/ \E u \in Updates : UpdateCall(u)
  \/ \E u \in Updates, astroConfig \in AstroConfigs : LoadConfigReturn(u, astroConfig)
  \/ \E u \in Updates : LoadConfigThrows(u)
  \/ \E u \in Updates : ImportModuleReturn(u)
  \/ \E u \in Updates : ImportModuleThrows(u)
  \/ \E u \in Updates : UpdateRelease(u)

UpdateSpec == Init /\ [][UpdateNext]_vars

\* ------------------------------------------------------------------ claims

\* Vocabulary of the claims, stated on the recorded checks.
Outcome(p, i)  == checks[p][i][2]
Checked(p, i)  == checks[p][i][1]
Range(seq)     == {seq[i] : i \in 1..Len(seq)}
HasHyphen(C)   == C.kind = "string" /\ \E i \in 1..Len(C.text) : C.text[i] = "-"
InvalidRef(C)  == C.kind = "null" \/ (C.kind = "string" /\ ~HasHyphen(C))
\* resolveRenderer of call p has ended (returned or thrown) after a scan.
ScanEnded(p)   == \/ pc[p] = "resolved" /\ via[p] \in {"scan", "none"}
                  \/ pc[p] = "failed" /\ via[p] = "error"
\* Call p leaves the start of resolveRenderer in this step.
Resolving(p)   == pc[p] = "ready" /\ pc'[p] # "ready"

\* C1: on a cache miss the checks run one at a time in the order of the
\* scanned array; as soon as the check at position k returns true, with all
\* earlier ones false or throwing, resolveRenderer returns the instance at
\* position k without an error, after exactly k checks and none behind k.
C1_FirstMatchWins ==
  \A p \in Calls :
    /\ Len(checks[p]) <= Len(scan[p])
    /\ \A i \in 1..Len(checks[p]) :
         /\ Checked(p, i) = scan[p][i]
         /\ Outcome(p, i) = "true" =>
              /\ i = Len(checks[p])
              /\ pc[p] = "resolved"
              /\ via[p] = "scan"
              /\ instance[p] = scan[p][i]
              /\ failure[p] = NoError
    /\ pc[p] = "check" => idx[p] = Len(checks[p]) + 1
    /\ (pc[p] = "resolved" /\ via[p] = "scan") =>
         /\ checks[p] # <<>>
         /\ Outcome(p, Len(checks[p])) = "true"

\* C1 witness: the third instance of the registry matched after a throwing
\* and a false check.
C1_Witness ==
  \E p \in Calls :
    /\ pc[p] = "resolved" /\ via[p] = "scan"
    /\ Len(checks[p]) = 3
    /\ Outcome(p, 1) = "throw" /\ Outcome(p, 2) = "false"
    /\ instance[p] = scan[p][3]

\* C2: when the Component is a key of rendererCache as resolveRenderer is
\* called, the call returns the cached instance and calls no check, whatever
\* rendererInstances holds.
C2_CacheHit ==
  [][\A p \in Calls :
       (Resolving(p) /\ Component[p] \in DOMAIN rendererCache) =>
         /\ pc'[p] = "resolved"
         /\ via'[p] = "cache"
         /\ instance'[p] = rendererCache[Component[p]]
         /\ checks'[p] = <<>>
         /\ scan'[p] = <<>>]_vars

\* C2 witness: a hit that returned an instance the registry no longer holds.
C2_Witness ==
  \E p \in Calls :
    /\ pc[p] = "resolved" /\ via[p] = "cache"
    /\ instance[p] \notin Range(rendererInstances)
    /\ Len(rendererInstances) > 1

\* C3 as stated: after a resolveRenderer call for a Component has completed,
\* whatever it returned, the next call for that Component is a cache hit
\* and runs no check.
C3_Original ==
  [][\A p \in Calls :
       (Resolving(p) /\ Component[p] \in completedFor) =>
         (pc'[p] = "resolved" /\ via'[p] = "cache")]_vars

\* C3 amended: after a resolveRenderer call has returned an instance for a
\* Component, every later call for that Component is a cache hit and runs
\* no check.
C3_SecondCallHits ==
  [][\A p \in Calls :
       (Resolving(p) /\ Component[p] \in returnedFor) =>
         /\ pc'[p] = "resolved"
         /\ via'[p] = "cache"
         /\ checks'[p] = <<>>]_vars

\* C3 witness: a second call for a matched Component, answered by the cache.
C3_Witness ==
  \E p \in Calls :
    /\ pc[p] = "resolved" /\ via[p] = "cache"
    /\ Component[p] = FnComponent
    /\ rendererCache[FnComponent] \in UserInstances

\* C4: when every check of the scanned array has thrown, resolveRenderer
\* fails with the error of the first instance of the array, and no step
\* that records a throwing check writes rendererCache.
C4_FirstErrorSurfaces ==
  /\ [](\A p \in Calls :
          (/\ scan[p] # <<>>
           /\ Len(checks[p]) = Len(scan[p])
           /\ \A i \in 1..Len(checks[p]) : Outcome(p, i) = "throw") =>
            /\ pc[p] = "failed"
            /\ via[p] = "error"
            /\ failure[p] = CheckError(scan[p][1], 1))
  /\ [][\A p \in Calls :
          (/\ Len(checks'[p]) = Len(checks[p]) + 1
           /\ checks'[p][Len(checks'[p])][2] = "throw") =>
            rendererCache' = rendererCache]_vars

\* C4 witness: three checks, all thrown.
C4_Witness ==
  \E p \in Calls :
    /\ pc[p] = "failed"
    /\ Len(checks[p]) = 3
    /\ \A i \in 1..3 : Outcome(p, i) = "throw"

C6_Original ==
  [][rendererInstances' # rendererInstances => rendererCache' = <<>>]_vars

\* C6 amended: setRenderers never touches rendererCache; the entries
\* cached under the previous registry stay and are returned by later calls.
C6_CacheSurvivesSetRenderers ==
  [][rendererInstances' # rendererInstances => rendererCache' = rendererCache]_vars

\* C6 witness: the registry was replaced and the cache still maps a
\* Component to an instance of the replaced registry.
C6_Witness ==
  /\ Len(rendererInstances) = 2
  /\ \E C \in DOMAIN rendererCache :
       /\ rendererCache[C] \in UserInstances
       /\ rendererCache[C] \notin Range(rendererInstances)

\* C7: a null Component, or a string without a hyphen, fails in the first
\* stage: the call never reaches a check or a render, and the step leaves
\* rendererInstances and rendererCache as they were.
C7_FailFast ==
  /\ [](\A p \in Calls :
          (pc[p] # "idle" /\ InvalidRef(Component[p])) =>
            /\ pc[p] = "failed"
            /\ failure[p] \in {NullComponentError, StringComponentError}
            /\ (failure[p] = NullComponentError <=> Component[p].kind = "null")
            /\ checks[p] = <<>> /\ renders[p] = <<>>
            /\ scan[p] = <<>> /\ via[p] = "unresolved")
  /\ [][\A p \in Calls :
          (pc[p] = "idle" /\ pc'[p] # "idle" /\ InvalidRef(Component'[p])) =>
            /\ pc'[p] = "failed"
            /\ UNCHANGED <<rendererInstances, rendererCache>>]_vars

\* C7 witness: a plain tag name was refused while the registry held two
\* user renderers.
C7_Witness ==
  \E p \in Calls :
    /\ pc[p] = "failed"
    /\ Component[p] = DivTag
    /\ Len(rendererInstances) = 3

\* C8: when resolveRenderer returned nothing, a hyphenated tag is rendered
\* with the plain-HTML instance; otherwise a registry of exactly two
\* elements gives its second element; otherwise the call fails with "No
\* renderer found" and renderToStaticMarkup is not called.
C8_FallbackOrder ==
  [][\A p \in Calls :
       (pc[p] = "resolved" /\ pc'[p] # "resolved" /\ instance[p] = Undefined) =>
         IF HasHyphen(Component[p])
         THEN /\ pc'[p] = "render"
              /\ instance'[p] = astroHtmlRendererInstance
              /\ renders'[p] = <<astroHtmlRendererInstance>>
         ELSE IF Len(rendererInstances) = 2
         THEN /\ pc'[p] = "render"
              /\ instance'[p] = rendererInstances[2]
              /\ renders'[p] = <<rendererInstances[2]>>
         ELSE /\ pc'[p] = "failed"
              /\ failure'[p] = NoRendererError
              /\ renders'[p] = <<>>]_vars

\* C8 witness: no check matched a function component and the only user
\* renderer was taken.
C8_Witness ==
  \E p \in Calls :
    /\ pc[p] = "render" /\ via[p] = "none"
    /\ Component[p] = FnComponent
    /\ instance[p] \in UserInstances

\* C9: when renderToStaticMarkup of the chosen instance fails, the call
\* fails with that very error; exactly one renderToStaticMarkup was called,
\* no check runs after the choice, and the failed call only ends.
C9_RenderFailureIsFatal ==
  /\ [](\A p \in Calls :
          /\ Len(renders[p]) <= 1
          /\ renders[p] # <<>> =>
               /\ checks[p] = <<>>
               /\ renders[p][1] = instance[p]
               /\ pc[p] \in {"render", "script", "done", "failed"}
               /\ pc[p] = "failed" => failure[p] = RenderError(renders[p][1]))
  /\ [][\A p \in Calls :
          pc[p] = "failed" => (pc'[p] = "failed" \/ pc'[p] = "idle")]_vars

\* C9 witness: the render of an instance found by the scan failed.
C9_Witness ==
  \E p \in Calls :
    /\ pc[p] = "failed" /\ via[p] = "scan"
    /\ renders[p] = <<"B">>
    /\ failure[p] = RenderError("B")

\* Vocabulary of C10: a package whose client or server is not a string.
BadEntry(raw) == raw.client # "string" \/ raw.server # "string"
AnyBad(raws)  == \E i \in 1..Len(raws) : BadEntry(raws[i])

\* C10: buildRendererInstances is all or nothing.  When a renderer package
\* exports a client or a server that is not a string, the call rejects and
\* carries no list; a list it resolves to has one valid instance per
\* configured renderer; and the settling step leaves rendererInstances as
\* it was.
C10_AllOrNothing ==
  /\ [](/\ AnyBad(imported) => (built.state = "rejected" /\ built.value = <<>>)
        /\ built.state = "fulfilled" =>
             /\ Len(built.value) = Len(imported)
             /\ ~AnyBad(imported)
        /\ built.state = "rejected" => built.value = <<>>)
  /\ [][(building.running /\ ~building'.running) =>
          rendererInstances' = rendererInstances]_vars

\* C10 witness: the second of two configured renderers has no client; the
\* build was rejected while a registry of three instances was active.
C10_Witness ==
  /\ Len(imported) = 2
  /\ imported[1] = RawWithPlugin /\ imported[2] = RawNoClient
  /\ built.state = "rejected"
  /\ Len(rendererInstances) = 3

\* Vocabulary of C11..C14: a call that returned static or hydrated markup,
\* and a tag standing somewhere in a markup.
ReturnedStatic(p)   == pc[p] = "done" /\ output[p].kind = "static"
ReturnedHydrated(p) == pc[p] = "done" /\ output[p].kind = "hydrated"
ContainsSeq(s, t)   == \E i \in 1..Len(s) : StartsWith(SubSeq(s, i, Len(s)), t)
HasMarker(s)        == ContainsSeq(s, OpenFragment) \/ ContainsSeq(s, CloseFragment)
RECURSIVE IsSubsequence(_, _)
IsSubsequence(s, t) ==
  IF s = <<>> THEN TRUE
  ELSE IF t = <<>> THEN FALSE
  ELSE IF Head(s) = Head(t) THEN IsSubsequence(Tail(s), Tail(t))
  ELSE IsSubsequence(s, Tail(t))

\* C11: the markup returned by a call without componentProps.hydrate holds
\* no <astro-fragment> and no </astro-fragment>, whatever html the renderer
\* returned, and what it holds is the rest of the html in its order.
C11_Original ==
  \A p \in Calls :
    ReturnedStatic(p) =>
      /\ ~HasMarker(output[p].markup)
      /\ IsSubsequence(output[p].markup, html[p])

C13_HydratedResult ==
  \A p \in Calls :
    /\ ReturnedHydrated(p) =>
         /\ hydrate[p] \in HydrateModes
         /\ output[p].uid = hash_unique(html[p])
         /\ output[p].script.id = output[p].uid
         /\ astroId[p] = output[p].uid
         /\ output[p].script.setup = <<"/_astro_frontend/hydrate/", hydrate[p], ".js">>
         /\ output[p].markup = html[p]
    /\ (pc[p] = "done" /\ hydrate[p] \in HydrateModes) => ReturnedHydrated(p)
    /\ ReturnedStatic(p) => output[p].script = NoScript

\* C13 witness: a call hydrated on 'visible' returned markup that still
\* holds both wrapper tags, behind it the polyfill script of its renderer.
C13_Witness ==
  \E p \in Calls :
    /\ ReturnedHydrated(p)
    /\ hydrate[p] = "visible"
    /\ instance[p] = "B"
    /\ ContainsSeq(output[p].markup, OpenFragment)
    /\ ContainsSeq(output[p].markup, CloseFragment)
    /\ output[p].markup # OpenFragment \o Text \o CloseFragment

\* C14: astroId is a function of the rendered html alone: two calls that
\* hold an astroId and whose html (renderer markup plus polyfill scripts)
\* is equal hold equal astroIds, whatever their Components, instances and
\* hydrate modes are and however their steps interleaved.
C14_IdOfMarkupOnly ==
  \A p, q \in Calls :
    (astroId[p] # NoId /\ astroId[q] # NoId /\ html[p] = html[q]) =>
      /\ astroId[p] = astroId[q]
      /\ (ReturnedHydrated(p) /\ ReturnedHydrated(q)) =>
           output[p].uid = output[q].uid

\* C14 witness: two calls for different Components, rendered by different
\* instances, returned the same html under the same uid.
C14_Witness ==
  \E p, q \in Calls :
    /\ p # q
    /\ ReturnedHydrated(p) /\ ReturnedHydrated(q)
    /\ Component[p] # Component[q]
    /\ instance[p] # instance[q]
    /\ HasMarker(html[p])
    /\ html[p] = html[q]
    /\ output[p].uid = output[q].uid

C16_CacheGrows ==
  [][\A C \in DOMAIN rendererCache : C \in DOMAIN rendererCache']_vars

\* C16 witness: the cache holds two Components, one of them with an
\* instance that the registry set since no longer holds.
C16_Witness ==
  /\ DOMAIN rendererCache = {FnComponent, WidgetTag}
  /\ rendererCache[FnComponent] = "A"
  /\ rendererInstances = <<astroRendererInstance, "B">>

\* C17: the loop of a resolveRenderer call iterates the array that was the
\* registry when the call began, whatever setRenderers does while a check
\* is awaited: the array stays as it was, the checks called are those of
\* its elements in its order, and the instance the scan returns is one of
\* its elements.
C17_ScanKeepsItsRegistry ==
  /\ [][\A p \in Calls :
          /\ (pc[p] = "ready" /\ pc'[p] = "check") => scan'[p] = rendererInstances
          /\ pc[p] = "check" => scan'[p] = scan[p]]_vars
  /\ [](\A p \in Calls :
          (pc[p] = "check" \/ ScanEnded(p)) =>
            /\ Len(checks[p]) <= Len(scan[p])
            /\ \A i \in 1..Len(checks[p]) : Checked(p, i) = scan[p][i]
            /\ (pc[p] = "resolved" /\ via[p] = "scan") => instance[p] \in Range(scan[p])
            /\ (pc[p] = "resolved" /\ via[p] = "none") => instance[p] = Undefined)

\* C17 witness: a scan ran through all three elements of a registry that
\* was replaced meanwhile and returned its last element, which the new
\* registry does not hold.
C17_Witness ==
  \E p \in Calls :
    /\ pc[p] = "resolved" /\ via[p] = "scan"
    /\ scan[p] = <<astroRendererInstance, "A", "B">>
    /\ Len(checks[p]) = 3
    /\ instance[p] = "B"
    /\ rendererInstances = <<astroRendererInstance, "A", "A">>

\* C18: with the registry unchanged and checks that answer for a Component
\* what they answered before, resolveRenderer calls for one Component that
\* interleave at their awaits end alike: those that have returned hold the
\* same instance, an instance returned is the entry of the cache, a call
\* that found none or threw leaves no entry, and a write never changes the
\* value of an entry.
C18_SameAdapter ==
  /\ [](\A p, q \in Calls :
          (Component[p] = Component[q] /\ pc[p] = "resolved" /\ pc[q] = "resolved") =>
            instance[p] = instance[q])
  /\ [](\A p \in Calls :
          /\ (pc[p] = "resolved" /\ via[p] \in {"scan", "cache"}) =>
               /\ Component[p] \in DOMAIN rendererCache
               /\ rendererCache[Component[p]] = instance[p]
          /\ (ScanEnded(p) /\ via[p] \in {"none", "error"}) =>
               Component[p] \notin DOMAIN rendererCache)
  /\ [][\A C \in DOMAIN rendererCache :
          C \in DOMAIN rendererCache' /\ rendererCache'[C] = rendererCache[C]]_vars

\* C18 witness: two calls for one Component both ran the scan to its
\* second element, both wrote the cache, and both hold that element.
C18_Witness ==
  \E p, q \in Calls :
    /\ p # q
    /\ Component[p] = FnComponent /\ Component[q] = FnComponent
    /\ pc[p] = "resolved" /\ pc[q] = "resolved"
    /\ via[p] = "scan" /\ via[q] = "scan"
    /\ Len(checks[p]) = 2 /\ Len(checks[q]) = 2
    /\ instance[p] = "B" /\ instance[q] = "B"
    /\ rendererCache[FnComponent] = "B"

\* C19: a markDirty() is not lost: while a markDirty() has been called and
\* no update() that began after it has completed, needsUpdate() is true.
C19_Original ==
  pendingDirty => (state = "initial" \/ state = "dirty")

\* C20: an update() called while the state is 'clean' or no runtime is
\* attached returns at once and leaves state, version and rendererNames as
\* they were, without awaiting loadConfig or importModule; any other call
\* goes on to one of the two awaits; version and rendererNames change only
\* in an update() that found the state dirty; and the state becomes 'clean'
\* only as the importModule of an update() with a runtime attached resolves.
C20_UpdateIsNoOp ==
  /\ [][\A u \in Updates :
          (updatePc[u] = "idle" /\ updatePc'[u] # "idle") =>
            IF state = "clean" \/ snowpackRuntime = NoRuntime
              THEN /\ updatePc'[u] = "returned"
                   /\ state' = state
                   /\ version' = version
                   /\ rendererNames' = rendererNames
              ELSE /\ updatePc'[u] \in {"loadConfig", "importModule"}
                   /\ (updatePc'[u] = "loadConfig") = (state = "dirty")
                   /\ version' = IF state = "dirty" THEN version + 1 ELSE version]_vars
  /\ [][(state' = "clean" /\ state # "clean") =>
          /\ snowpackRuntime # NoRuntime
          /\ \E u \in Updates :
               updatePc[u] = "importModule" /\ updatePc'[u] = "returned"]_vars
  /\ [][rendererNames' # rendererNames =>
          \E u \in Updates :
            updatePc[u] = "loadConfig" /\ updatePc'[u] = "importModule"]_vars
  /\ [](\A u \in Updates :
          updatePc[u] \in {"loadConfig", "importModule"} =>
            snowpackRuntime # NoRuntime)

\* C20 witness: an update() called on a dirty manager without a runtime
\* has returned; the state is still dirty and the version still 1.
C20_Witness ==
  /\ state = "dirty"
  /\ snowpackRuntime = NoRuntime
  /\ version = 1
  /\ \E u \in Updates : updatePc[u] = "returned"

====
